---- MODULE Spec2Model ----
(***************************************************************************)
(* Model of the gemini-image-retouch scripts:                              *)
(*   main.py                 synchronous processor (flat output names)     *)
(*   src/single_retouch.py   synchronous processor (stem + .png names)     *)
(*   src/batch_retouch.py    batch submitter                               *)
(*   src/check_batch.py      batch result fetcher                          *)
(* One behaviour is one run of one entry point.  Text is modelled as a     *)
(* sequence of one-character strings so that prefixing, suffix tests,      *)
(* lower-casing, substring search and replacement are computed.            *)
(***************************************************************************)
EXTENDS Integers, Sequences, FiniteSets, TLC

(* ------------------------------ bounds --------------------------------- *)
\* longest directory listing explored
MaxFiles == 3
\* longest result manifest explored
MaxLines == 3

(* --------------------------- text helpers ------------------------------ *)
UpperAlpha == <<"A","B","C","D","E","F","G","H","I","J","K","L","M",
                "N","O","P","Q","R","S","T","U","V","W","X","Y","Z">>
LowerAlpha == <<"a","b","c","d","e","f","g","h","i","j","k","l","m",
                "n","o","p","q","r","s","t","u","v","w","x","y","z">>

\* str.lower() on one character
LowerChar(c) ==
    IF \E i \in 1..Len(UpperAlpha) : UpperAlpha[i] = c
    THEN LowerAlpha[CHOOSE i \in 1..Len(UpperAlpha) : UpperAlpha[i] = c]
    ELSE c

\* str.lower()
Lower(s) == [i \in 1..Len(s) |-> LowerChar(s[i])]

\* s.startswith(pre)
StartsWith(s, pre) ==
    /\ Len(pre) <= Len(s)
    /\ SubSeq(s, 1, Len(pre)) = pre

\* s.endswith(suf)
EndsWith(s, suf) ==
    /\ Len(suf) <= Len(s)
    /\ SubSeq(s, Len(s) - Len(suf) + 1, Len(s)) = suf

\* s.endswith(tuple_of_suffixes)
EndsWithAny(s, sufs) == \E suf \in sufs : EndsWith(s, suf)

\* sub in s
Contains(sub, s) ==
    \E i \in 1..(Len(s) - Len(sub) + 1) : SubSeq(s, i, i + Len(sub) - 1) = sub

\* s.replace(old, ""): every non-overlapping occurrence, scanning left to right
RECURSIVE RemoveAll(_, _)
RemoveAll(s, old) ==
    IF Len(s) = 0 THEN <<>>
    ELSE IF StartsWith(s, old)
         THEN RemoveAll(SubSeq(s, Len(old) + 1, Len(s)), old)
         ELSE <<Head(s)>> \o RemoveAll(Tail(s), old)

\* s.rfind("."), 1-based, 0 when absent
LastDot(s) ==
    IF \E i \in 1..Len(s) : s[i] = "."
    THEN CHOOSE i \in 1..Len(s) : s[i] = "." /\ \A j \in (i+1)..Len(s) : s[j] # "."
    ELSE 0

\* os.path.splitext(p)[0] for a name without directory separators: the
\* extension starts at the last dot unless only dots precede it
SplitextRoot(p) ==
    LET d == LastDot(p) IN
    IF d > 0 /\ \E k \in 1..(d - 1) : p[k] # "."
    THEN SubSeq(p, 1, d - 1)
    ELSE p

\* pathlib.Path(name).stem: the suffix starts at the last dot unless that dot
\* is the first or the last character
PathStem(name) ==
    LET d == LastDot(name) IN
    IF d > 1 /\ d < Len(name)
    THEN SubSeq(name, 1, d - 1)
    ELSE name

(* --------------------------- text constants ---------------------------- *)
DotJpg  == <<".","j","p","g">>
DotJpeg == <<".","j","p","e","g">>
DotPng  == <<".","p","n","g">>
DotWebp == <<".","w","e","b","p">>
DotJPG  == <<".","J","P","G">>
DotJPEG == <<".","J","P","E","G">>
DotPNG  == <<".","P","N","G">>
Jpeg    == <<"j","p","e","g">>
RetouchTag     == <<"r","e","t","o","u","c","h","_">>
RetouchedTag   == <<"r","e","t","o","u","c","h","e","d","_">>
RetouchedSuffix == <<"_","r","e","t","o","u","c","h","e","d">>
ImagePrefix    == <<"i","m","a","g","e","_">>

(* ------------------------------ inputs --------------------------------- *)
\* names a raw directory may hold
N_a_jpg  == <<"a",".","j","p","g">>
N_a_png  == <<"a",".","p","n","g">>
N_b_JPG  == <<"b",".","J","P","G">>
N_c_Jpg  == <<"c",".","J","p","g">>
N_d_webp == <<"d",".","w","e","b","p">>
N_n_txt  == <<"n",".","t","x","t">>
N_ra_jpg == <<"r","e","t","o","u","c","h","_","a",".","j","p","g">>
DirNames == {N_a_jpg, N_a_png, N_b_JPG, N_c_Jpg, N_d_webp, N_n_txt, N_ra_jpg}

\* os.listdir(): distinct names in arbitrary order
Listings ==
    UNION {{l \in [1..n -> DirNames] : \A i, j \in 1..n : i # j => l[i] # l[j]}
           : n \in 0..MaxFiles}

\* content parts of a generateContent response as the SDK returns them
TextPart  == [text |-> "note"]
ImgPart1  == [inline_data |-> [data |-> "img1"]]
ImgPart2  == [inline_data |-> [data |-> "img2"]]
JunkPart  == [inline_data |-> [data |-> "junk"]]

\* what client.models.generate_content may do for one image
SyncOutcomes ==
    { [raised |-> TRUE],
      [raised |-> FALSE, candidates |-> <<>>] }
    \cup
    { [raised |-> FALSE, candidates |-> <<[content |-> [parts |-> ps]]>>]
      : ps \in { <<TextPart, ImgPart1>>, <<ImgPart1, ImgPart2>>,
                 <<ImgPart1, JunkPart>>, <<TextPart>> } }

\* PIL.Image.open succeeds on these payloads and raises on any other
Decodable(data) == data \in {"img1", "img2"}

EntryPoints == {"main", "single", "submit", "fetch"}

(* ------------------------------- state --------------------------------- *)
VARIABLES
    entry,        \* the script being run
    pc,           \* position in that script
    listing,      \* os.listdir of the raw directory
    image_files,  \* the names selected for processing / upload
    idx,          \* number of loop iterations completed
    count,        \* processed_count / success_count
    manifest,     \* lines of batch_requests.jsonl
    job_state,    \* job.state as returned by client.batches.get
    lines,        \* lines of the downloaded result manifest
    log           \* remote calls, file writes, exceptions and reports, in order

vars == <<entry, pc, listing, image_files, idx, count, manifest, job_state, lines, log>>

CallEv(op, item, ok) == [kind |-> "call", op |-> op, item |-> item, ok |-> ok]
WriteEv(path, src, part, data) ==
    [kind |-> "write", path |-> path, src |-> src, part |-> part, data |-> data]
RaiseEv(what, src, part) == [kind |-> "raise", what |-> what, src |-> src, part |-> part]
ReportEv(what, src) == [kind |-> "report", what |-> what, src |-> src]

\* os.path.join(directory, name)
PathJoin(dir, name) == [dir |-> dir, name |-> name]

Init ==
    /\ entry \in EntryPoints
    /\ pc = "start"
    /\ listing \in (IF entry = "fetch" THEN {<<>>} ELSE Listings)
    /\ image_files = <<>>
    /\ idx = 0
    /\ count = 0
    /\ manifest = <<>>
    /\ job_state = "none"
    /\ lines = <<>>
    /\ log = <<>>

(* ----------------------- synchronous processors ------------------------ *)
\* the extension tuple of main.py and single_retouch.py
SyncSuffixes == {DotJpg, DotPng, DotJpeg, DotJPG, DotPNG, DotJPEG}
SyncSelected(f) == EndsWithAny(f, SyncSuffixes)

\* main.py: output name keeps the whole input name
MainOutPath(filename) == PathJoin("processed_dir", RetouchedTag \o filename)

\* single_retouch.py: output name is the stem plus .png
SingleOutPath(filename) == PathJoin("output_dir", RetouchedTag \o PathStem(filename) \o DotPng)

\* the loop over response.candidates[0].content.parts: every part with
\* inline data is decoded and saved; a decode error ends the loop
RECURSIVE SaveParts(_, _, _, _)
SaveParts(parts, k, filename, out_path) ==
    IF k > Len(parts) THEN <<>>
    ELSE IF "inline_data" \notin DOMAIN parts[k]
         THEN SaveParts(parts, k + 1, filename, out_path)
         ELSE IF Decodable(parts[k].inline_data.data)
              THEN <<WriteEv(out_path, filename, k, parts[k].inline_data.data)>>
                   \o SaveParts(parts, k + 1, filename, out_path)
              ELSE <<RaiseEv("decode", filename, k)>>

\* one image: the generate request, then the save loop
SyncImage(filename, r, out_path) ==
    IF r.raised
    THEN <<CallEv("generate", filename, FALSE)>>
    ELSE <<CallEv("generate", filename, TRUE)>>
         \o (IF Len(r.candidates) = 0
             THEN <<RaiseEv("index", filename, 0)>>
             ELSE SaveParts(r.candidates[1].content.parts, 1, filename, out_path))

Failed(ev) == ev.kind = "raise" \/ (ev.kind = "call" /\ ~ev.ok)
Raises(evs) == Len(evs) > 0 /\ Failed(evs[Len(evs)])
Writes(evs) == Cardinality({i \in 1..Len(evs) : evs[i].kind = "write"})

\* main.py: API key check, makedirs
MainStart ==
    /\ entry = "main" /\ pc = "start"
    /\ \E key \in BOOLEAN :
         IF key
         THEN pc' = "loop" /\ log' = log
         ELSE pc' = "crashed" /\ log' = Append(log, RaiseEv("config", <<>>, 0))
    /\ UNCHANGED <<entry, listing, image_files, idx, count, manifest, job_state, lines>>

\* mutant: the error of one image is caught and the loop goes on
MainIter_Isolated ==
    /\ entry = "main" /\ pc = "loop" /\ idx < Len(listing)
    /\ LET filename == listing[idx + 1] IN
         IF ~SyncSelected(filename)
         THEN /\ idx' = idx + 1
              /\ UNCHANGED <<pc, image_files, count, log>>
         ELSE \E r \in SyncOutcomes :
                LET evs == SyncImage(filename, r, MainOutPath(filename)) IN
                /\ image_files' = Append(image_files, filename)
                /\ log' = log \o evs
                /\ count' = count + Writes(evs)
                /\ idx' = idx + 1
                /\ pc' = "loop"
    /\ UNCHANGED <<entry, listing, manifest, job_state, lines>>

\* main.py: one iteration of `for filename in os.listdir(...)`
MainIter ==
    /\ entry = "main" /\ pc = "loop" /\ idx < Len(listing)
    /\ LET filename == listing[idx + 1] IN
         IF ~SyncSelected(filename)
         THEN /\ idx' = idx + 1
              /\ UNCHANGED <<pc, image_files, count, log>>
         ELSE \E r \in SyncOutcomes :
                LET evs == SyncImage(filename, r, MainOutPath(filename)) IN
                /\ image_files' = Append(image_files, filename)
                /\ log' = log \o evs
                /\ count' = count + Writes(evs)
                /\ idx' = idx + 1
                /\ pc' = IF Raises(evs) THEN "crashed" ELSE "loop"
    /\ UNCHANGED <<entry, listing, manifest, job_state, lines>>

\* main.py: the final report
MainFinish ==
    /\ entry = "main" /\ pc = "loop" /\ idx = Len(listing)
    /\ pc' = "done"
    /\ log' = Append(log, ReportEv("complete", count))
    /\ UNCHANGED <<entry, listing, image_files, idx, count, manifest, job_state, lines>>

\* single_retouch.py: API key check, output directory, file list
SingleStart ==
    /\ entry = "single" /\ pc = "start"
    /\ \E key \in BOOLEAN :
         IF key
         THEN /\ pc' = "loop"
              /\ image_files' = SelectSeq(listing, SyncSelected)
              /\ log' = log
         ELSE /\ pc' = "crashed"
              /\ image_files' = image_files
              /\ log' = Append(log, RaiseEv("config", <<>>, 0))
    /\ UNCHANGED <<entry, listing, idx, count, manifest, job_state, lines>>

\* single_retouch.py: one iteration of `for filename in tqdm(image_files)`
SingleIter ==
    /\ entry = "single" /\ pc = "loop" /\ idx < Len(image_files)
    /\ LET filename == image_files[idx + 1] IN
         \E r \in SyncOutcomes :
            LET evs == SyncImage(filename, r, SingleOutPath(filename)) IN
            /\ log' = log \o evs
            /\ count' = count + Writes(evs)
            /\ idx' = idx + 1
            /\ pc' = IF Raises(evs) THEN "crashed" ELSE "loop"
    /\ UNCHANGED <<entry, listing, image_files, manifest, job_state, lines>>

\* single_retouch.py: the final report
SingleFinish ==
    /\ entry = "single" /\ pc = "loop" /\ idx = Len(image_files)
    /\ pc' = "done"
    /\ log' = Append(log, ReportEv("complete", count))
    /\ UNCHANGED <<entry, listing, image_files, idx, count, manifest, job_state, lines>>

(* --------------------------- batch submitter --------------------------- *)
MODEL_ID        == "models/gemini-2.5-flash"
GCS_INPUT_PATH  == "gs://gemini-image-retouch/raw/"
GCS_OUTPUT_PATH == "gs://gemini-image-retouch/proccessed/"
master_prompt   == "Analyze this batch of images taken in the same location. ..."

\* the extension test of upload_images_to_gcs
UploadSuffixes == {DotJpg, DotJpeg, DotPng, DotWebp}
UploadSelected(f) == EndsWithAny(Lower(f), UploadSuffixes)

\* f"retouch_{img_name}"
CustomId(img_name) == RetouchTag \o img_name

\* one line of batch_requests.jsonl
RequestLine(img_name, prompt) ==
    [custom_id |-> CustomId(img_name),
     method    |-> "POST",
     request   |->
        [model    |-> MODEL_ID,
         contents |-> << [parts |-> <<[text |-> prompt]>>],
                         [parts |-> <<[file_data |->
                                         [mime_type |-> "image/jpeg",
                                          file_uri  |-> [prefix |-> GCS_INPUT_PATH,
                                                         name   |-> img_name]]]>>] >>,
         generation_config |-> [response_modalities |-> <<"IMAGE">>]]]

\* mutant: the loop starts at the second name
create_batch_file_SkipFirst(image_names, prompt) ==
    [i \in 1..(Len(image_names) - 1) |-> RequestLine(image_names[i + 1], prompt)]

\* create_batch_file: the file is opened with "w" and one line is written per name
create_batch_file(image_names, prompt) ==
    [i \in 1..Len(image_names) |-> RequestLine(image_names[i], prompt)]

\* mutant: neither upload_images_to_gcs nor its caller tests for an empty list
SubmitList_NoEmptyCheck ==
    /\ entry = "submit" /\ pc = "start"
    /\ \E env \in {"ok", "no_client", "no_dir"} :
         IF env # "ok"
         THEN /\ pc' = "failed"
              /\ image_files' = image_files
              /\ log' = log \o <<RaiseEv(env, <<>>, 0), ReportEv("error", env)>>
         ELSE /\ image_files' = SelectSeq(listing, UploadSelected)
              /\ pc' = "upload"
              /\ log' = log
    /\ UNCHANGED <<entry, listing, idx, count, manifest, job_state, lines>>

\* upload_images_to_gcs up to its loop, and the caller's empty check
SubmitList ==
    /\ entry = "submit" /\ pc = "start"
    /\ \E env \in {"ok", "no_client", "no_dir"} :
         IF env # "ok"
         THEN /\ pc' = "failed"
              /\ image_files' = image_files
              /\ log' = log \o <<RaiseEv(env, <<>>, 0), ReportEv("error", env)>>
         ELSE LET files == SelectSeq(listing, UploadSelected) IN
              /\ image_files' = files
              /\ IF Len(files) = 0
                 THEN /\ pc' = "exited"
                      /\ log' = log \o <<ReportEv("no_images", 0), ReportEv("no_files", 0)>>
                 ELSE /\ pc' = "upload"
                      /\ log' = log
    /\ UNCHANGED <<entry, listing, idx, count, manifest, job_state, lines>>

\* mutant: a failed upload is attempted once more before giving up
SubmitUploadImage_Retry ==
    /\ entry = "submit" /\ pc = "upload" /\ idx < Len(image_files)
    /\ LET filename == image_files[idx + 1] IN
       \E ok \in BOOLEAN, again \in BOOLEAN :
         IF ok
         THEN /\ log' = Append(log, CallEv("upload_image", filename, TRUE))
              /\ idx' = idx + 1
              /\ pc' = pc
         ELSE IF again
         THEN /\ log' = log \o <<CallEv("upload_image", filename, FALSE),
                                 CallEv("upload_image", filename, TRUE)>>
              /\ idx' = idx + 1
              /\ pc' = pc
         ELSE /\ log' = log \o <<CallEv("upload_image", filename, FALSE),
                                 CallEv("upload_image", filename, FALSE),
                                 ReportEv("error", "upload_image")>>
              /\ idx' = idx
              /\ pc' = "failed"
    /\ UNCHANGED <<entry, listing, image_files, count, manifest, job_state, lines>>

\* one iteration of the upload loop; an exception reaches the outer handler
SubmitUploadImage ==
    /\ entry = "submit" /\ pc = "upload" /\ idx < Len(image_files)
    /\ LET filename == image_files[idx + 1] IN
       \E ok \in BOOLEAN :
         IF ok
         THEN /\ log' = Append(log, CallEv("upload_image", filename, TRUE))
              /\ idx' = idx + 1
              /\ pc' = pc
         ELSE /\ log' = log \o <<CallEv("upload_image", filename, FALSE),
                                 ReportEv("error", "upload_image")>>
              /\ idx' = idx
              /\ pc' = "failed"
    /\ UNCHANGED <<entry, listing, image_files, count, manifest, job_state, lines>>

\* create_batch_file(uploaded_files, master_prompt)
SubmitCreateBatchFile ==
    /\ entry = "submit" /\ pc = "upload" /\ idx = Len(image_files)
    /\ manifest' = create_batch_file(image_files, master_prompt)
    /\ pc' = "upload_manifest"
    /\ UNCHANGED <<entry, listing, image_files, idx, count, job_state, lines, log>>

\* client.files.upload(file="batch_requests.jsonl", ...)
SubmitUploadManifest ==
    /\ entry = "submit" /\ pc = "upload_manifest"
    /\ \E ok \in BOOLEAN :
         IF ok
         THEN /\ log' = Append(log, CallEv("upload_manifest", "batch_requests.jsonl", TRUE))
              /\ pc' = "create_job"
         ELSE /\ log' = log \o <<CallEv("upload_manifest", "batch_requests.jsonl", FALSE),
                                 ReportEv("error", "upload_manifest")>>
              /\ pc' = "failed"
    /\ UNCHANGED <<entry, listing, image_files, idx, count, manifest, job_state, lines>>

\* client.batches.create with the GCS destination
SubmitCreateJob ==
    /\ entry = "submit" /\ pc = "create_job"
    /\ \E ok \in BOOLEAN :
         IF ok
         THEN /\ log' = log \o <<CallEv("create_job", "image-retouch-batch", TRUE),
                                 ReportEv("job_created", GCS_OUTPUT_PATH)>>
              /\ pc' = "done"
         ELSE /\ log' = log \o <<CallEv("create_job", "image-retouch-batch", FALSE),
                                 ReportEv("warning", "fallback")>>
              /\ pc' = "fallback"
    /\ UNCHANGED <<entry, listing, image_files, idx, count, manifest, job_state, lines>>

\* the except branch: client.batches.create without destination
SubmitCreateJobFallback ==
    /\ entry = "submit" /\ pc = "fallback"
    /\ \E ok \in BOOLEAN :
         IF ok
         THEN /\ log' = log \o <<CallEv("create_job", "image-retouch-batch", TRUE),
                                 ReportEv("job_created", "default")>>
              /\ pc' = "done"
         ELSE /\ log' = log \o <<CallEv("create_job", "image-retouch-batch", FALSE),
                                 ReportEv("error", "create_job")>>
              /\ pc' = "failed"
    /\ UNCHANGED <<entry, listing, image_files, idx, count, manifest, job_state, lines>>

(* ------------------------- batch result fetcher ------------------------ *)
JOB_NAME   == "batches/worgu6z6dqyqjktv1znie2bv8mo38yjvsqo8"
OUTPUT_DIR == "./data/processed"

\* states the status query may report
JobStates == {"JOB_STATE_PENDING", "JOB_STATE_ACTIVE", "JOB_STATE_FAILED",
              "JOB_STATE_SUCCEEDED", "JOB_STATE_COMPLETED", "JOB_STATE_CANCELLED"}

\* declared MIME types
M_jpeg  == <<"i","m","a","g","e","/","j","p","e","g">>
M_png   == <<"i","m","a","g","e","/","p","n","g">>
M_pjpeg == <<"i","m","a","g","e","/","p","j","p","e","g">>
M_jpg   == <<"i","m","a","g","e","/","j","p","g">>
M_JPEG  == <<"i","m","a","g","e","/","J","P","E","G">>

\* base64.b64decode: payloads of the model and the bytes they decode to
B64Valid(d) == d \in {"QQ==", "Qg=="}
B64Decode(d) == IF d = "QQ==" THEN "A" ELSE "B"

\* content parts of a result line
InlinePart(mime, d) == [inline_data |-> [mime_type |-> mime, data |-> d]]
NoMimePart(d) == [inline_data |-> [data |-> d]]
NoDataPart(mime) == [inline_data |-> [mime_type |-> mime]]
Candidate(parts) == [content |-> [parts |-> parts]]
ResultLine(value) == [json |-> TRUE, object |-> TRUE, value |-> value]

\* result lines the remote service may return
L_bad    == [json |-> FALSE]
L_list   == [json |-> TRUE, object |-> FALSE]
L_err    == ResultLine([custom_id |-> CustomId(N_a_jpg),
                        response  |-> [error |-> "quota"]])
L_png    == ResultLine([custom_id |-> CustomId(N_a_jpg),
                        response  |-> [candidates |-> <<Candidate(<<InlinePart(M_png, "QQ==")>>)>>]])
L_jpeg   == ResultLine([custom_id |-> CustomId(N_ra_jpg),
                        response  |-> [candidates |-> <<Candidate(<<InlinePart(M_jpeg, "Qg==")>>)>>]])
L_nocand == ResultLine([custom_id |-> CustomId(N_b_JPG),
                        response  |-> [candidates |-> <<>>]])
L_text   == ResultLine([custom_id |-> CustomId(N_a_png),
                        response  |-> [candidates |-> <<Candidate(<<TextPart>>)>>]])
L_second == ResultLine([custom_id |-> CustomId(N_b_JPG),
                        response  |-> [candidates |-> <<Candidate(<<TextPart>>),
                                                        Candidate(<<InlinePart(M_png, "QQ==")>>)>>]])
L_multi  == ResultLine([custom_id |-> CustomId(N_c_Jpg),
                        response  |-> [candidates |-> <<Candidate(<<TextPart, NoMimePart("QQ=="),
                                                                    InlinePart(M_pjpeg, "Qg==")>>)>>]])
L_badb64 == ResultLine([custom_id |-> CustomId(N_a_png),
                        response  |-> [candidates |-> <<Candidate(<<InlinePart(M_JPEG, "QQ=="),
                                                                    InlinePart(M_jpg, "Q"),
                                                                    InlinePart(M_png, "Qg==")>>)>>]])
L_nodata == ResultLine([custom_id |-> CustomId(N_d_webp),
                        response  |-> [candidates |-> <<Candidate(<<NoDataPart(M_png)>>)>>]])
L_noid   == ResultLine([response  |-> [candidates |-> <<Candidate(<<InlinePart(M_jpg, "Qg==")>>)>>]])
L_twopng == ResultLine([custom_id |-> CustomId(N_b_JPG),
                        response  |-> [candidates |-> <<Candidate(<<InlinePart(M_png, "QQ=="),
                                                                    InlinePart(M_png, "Qg==")>>)>>]])

LineSet == {L_bad, L_list, L_err, L_png, L_jpeg, L_nocand, L_text, L_second,
            L_multi, L_badb64, L_nodata, L_noid, L_twopng}

\* result manifests: the lines of the downloaded content
Manifests == UNION {[1..n -> LineSet] : n \in 0..MaxLines}

\* content.strip().split(b"\n"): empty content still yields one (empty) line
SplitLines(content) == IF Len(content) = 0 THEN <<L_bad>> ELSE content

\* str(i) for a line index
Digits == <<"0","1","2","3","4","5","6","7","8","9">>
Str(i) == IF i < 10 THEN <<Digits[i + 1]>> ELSE <<Digits[(i \div 10) + 1], Digits[(i % 10) + 1]>>

\* dict.get(key, {}) on a parsed object
GetOr(obj, key, default) == IF key \in DOMAIN obj THEN obj[key] ELSE default

\* mutant: the MIME type is compared with "image/jpeg" instead of searched
ExtFor_Exact(mime_type) == IF mime_type = M_jpeg THEN DotJpg ELSE DotPng

\* ext = ".png"; if "jpeg" in mime_type: ext = ".jpg"
ExtFor(mime_type) == IF Contains(Jpeg, mime_type) THEN DotJpg ELSE DotPng

\* custom_id.replace("retouch_", "")
BaseName(custom_id) == RemoveAll(custom_id, RetouchTag)

\* f"{name_part}_retouched{ext}"
OutName(custom_id, ext) == SplitextRoot(BaseName(custom_id)) \o RetouchedSuffix \o ext

TruncEv(path, src, part) == [kind |-> "truncate", path |-> path, src |-> src, part |-> part]

\* the loop over parts: a part with inline data is named, its file opened,
\* its payload decoded and written; an exception leaves the loop
RECURSIVE FetchParts(_, _, _, _)
FetchParts(parts, k, i, custom_id) ==
    IF k > Len(parts) THEN <<>>
    ELSE IF "inline_data" \notin DOMAIN parts[k]
         THEN FetchParts(parts, k + 1, i, custom_id)
         ELSE LET inline    == parts[k].inline_data
                  mime_type == GetOr(inline, "mime_type", M_png)
                  out_path  == PathJoin(OUTPUT_DIR, OutName(custom_id, ExtFor(mime_type)))
              IN  IF "data" \notin DOMAIN inline
                  THEN <<RaiseEv("key", i, k)>>
                  ELSE IF ~B64Valid(inline.data)
                       THEN <<TruncEv(out_path, i, k), RaiseEv("b64", i, k)>>
                       ELSE <<WriteEv(out_path, i, k, B64Decode(inline.data))>>
                            \o FetchParts(parts, k + 1, i, custom_id)

\* mutant: only parts[0] of the first candidate is looked at
TryLine_FirstPart(i, line) ==
    IF ~line.json THEN <<RaiseEv("json", i, 0)>>
    ELSE IF ~line.object THEN <<RaiseEv("attr", i, 0)>>
    ELSE LET result     == line.value
             custom_id  == GetOr(result, "custom_id", ImagePrefix \o Str(i))
             response   == GetOr(result, "response", <<>>)
             candidates == GetOr(response, "candidates", <<>>)
             parts      == GetOr(GetOr(candidates[1], "content", <<>>), "parts", <<>>)
         IN  IF "error" \in DOMAIN response
             THEN <<ReportEv("line_error", i)>>
             ELSE IF Len(candidates) = 0
                  THEN <<ReportEv("no_candidates", i)>>
                  ELSE FetchParts(SubSeq(parts, 1, 1), 1, i, custom_id)

\* the try body for line i (0-based), without the except clause
TryLine(i, line) ==
    IF ~line.json THEN <<RaiseEv("json", i, 0)>>
    ELSE IF ~line.object THEN <<RaiseEv("attr", i, 0)>>
    ELSE LET result     == line.value
             custom_id  == GetOr(result, "custom_id", ImagePrefix \o Str(i))
             response   == GetOr(result, "response", <<>>)
             candidates == GetOr(response, "candidates", <<>>)
         IN  IF "error" \in DOMAIN response
             THEN <<ReportEv("line_error", i)>>
             ELSE IF Len(candidates) = 0
                  THEN <<ReportEv("no_candidates", i)>>
                  ELSE FetchParts(GetOr(GetOr(candidates[1], "content", <<>>), "parts", <<>>),
                                  1, i, custom_id)

\* the except clause: the failure is printed and the loop goes on
ParseLine(i, line) ==
    LET evs == TryLine(i, line) IN
    IF Raises(evs) THEN Append(evs, ReportEv("line_failed", i)) ELSE evs

\* mutant: the failed branch reports and falls through to the download
FetchGet_NoReturn ==
    /\ entry = "fetch" /\ pc = "start"
    /\ \E ok \in BOOLEAN, s \in JobStates :
         IF ~ok
         THEN /\ log' = Append(log, CallEv("get_job", JOB_NAME, FALSE))
              /\ job_state' = job_state
              /\ pc' = "crashed"
         ELSE /\ job_state' = s
              /\ IF s \in {"JOB_STATE_ACTIVE", "JOB_STATE_PENDING"}
                 THEN /\ log' = log \o <<CallEv("get_job", JOB_NAME, TRUE),
                                         ReportEv("still_running", s)>>
                      /\ pc' = "done"
                 ELSE IF s = "JOB_STATE_FAILED"
                 THEN /\ log' = log \o <<CallEv("get_job", JOB_NAME, TRUE),
                                         ReportEv("job_failed", s)>>
                      /\ pc' = "download"
                 ELSE IF s \in {"JOB_STATE_SUCCEEDED", "JOB_STATE_COMPLETED"}
                 THEN /\ log' = log \o <<CallEv("get_job", JOB_NAME, TRUE),
                                         ReportEv("downloading", s)>>
                      /\ pc' = "download"
                 ELSE /\ log' = Append(log, CallEv("get_job", JOB_NAME, TRUE))
                      /\ pc' = "done"
    /\ UNCHANGED <<entry, listing, image_files, idx, count, manifest, lines>>

\* main() up to the download: the status query and the three state tests
FetchGet ==
    /\ entry = "fetch" /\ pc = "start"
    /\ \E ok \in BOOLEAN, s \in JobStates :
         IF ~ok
         THEN /\ log' = Append(log, CallEv("get_job", JOB_NAME, FALSE))
              /\ job_state' = job_state
              /\ pc' = "crashed"
         ELSE /\ job_state' = s
              /\ IF s \in {"JOB_STATE_ACTIVE", "JOB_STATE_PENDING"}
                 THEN /\ log' = log \o <<CallEv("get_job", JOB_NAME, TRUE),
                                         ReportEv("still_running", s)>>
                      /\ pc' = "done"
                 ELSE IF s = "JOB_STATE_FAILED"
                 THEN /\ log' = log \o <<CallEv("get_job", JOB_NAME, TRUE),
                                         ReportEv("job_failed", s)>>
                      /\ pc' = "done"
                 ELSE IF s \in {"JOB_STATE_SUCCEEDED", "JOB_STATE_COMPLETED"}
                 THEN /\ log' = log \o <<CallEv("get_job", JOB_NAME, TRUE),
                                         ReportEv("downloading", s)>>
                      /\ pc' = "download"
                 ELSE /\ log' = Append(log, CallEv("get_job", JOB_NAME, TRUE))
                      /\ pc' = "done"
    /\ UNCHANGED <<entry, listing, image_files, idx, count, manifest, lines>>

\* client.files.content(name=job.output_file) and the split into lines
FetchDownload ==
    /\ entry = "fetch" /\ pc = "download"
    /\ \E ok \in BOOLEAN, content \in Manifests :
         IF ok
         THEN /\ log' = Append(log, CallEv("download", "output_file", TRUE))
              /\ lines' = SplitLines(content)
              /\ pc' = "parse"
         ELSE /\ log' = Append(log, CallEv("download", "output_file", FALSE))
              /\ lines' = lines
              /\ pc' = "crashed"
    /\ UNCHANGED <<entry, listing, image_files, idx, count, manifest, job_state>>

\* mutant: no except clause, the exception of a line leaves the loop
FetchLine_NoExcept ==
    /\ entry = "fetch" /\ pc = "parse" /\ idx < Len(lines)
    /\ LET evs == TryLine(idx, lines[idx + 1]) IN
         /\ log' = log \o evs
         /\ count' = count + Writes(evs)
         /\ pc' = IF Raises(evs) THEN "crashed" ELSE pc
    /\ idx' = idx + 1
    /\ UNCHANGED <<entry, listing, image_files, manifest, job_state, lines>>

\* one iteration of `for i, line in enumerate(lines)`
FetchLine ==
    /\ entry = "fetch" /\ pc = "parse" /\ idx < Len(lines)
    /\ LET evs == ParseLine(idx, lines[idx + 1]) IN
         /\ log' = log \o evs
         /\ count' = count + Writes(evs)
    /\ idx' = idx + 1
    /\ UNCHANGED <<entry, pc, listing, image_files, manifest, job_state, lines>>

\* the final report
FetchFinish ==
    /\ entry = "fetch" /\ pc = "parse" /\ idx = Len(lines)
    /\ pc' = "done"
    /\ log' = Append(log, ReportEv("complete", count))
    /\ UNCHANGED <<entry, listing, image_files, idx, count, manifest, job_state, lines>>

Next ==
    \/ MainStart \/ MainIter \/ MainFinish
    \/ SingleStart \/ SingleIter \/ SingleFinish
    \/ SubmitList \/ SubmitUploadImage \/ SubmitCreateBatchFile
    \/ SubmitUploadManifest \/ SubmitCreateJob \/ SubmitCreateJobFallback
    \/ FetchGet \/ FetchDownload \/ FetchLine \/ FetchFinish

Spec == Init /\ [][Next]_vars

(* ------------------------- reading the log ----------------------------- *)
IsCall(ev, op) == ev.kind = "call" /\ ev.op = op
CallIdx(op) == {k \in 1..Len(log) : IsCall(log[k], op)}
\* events that create or change an output file
Touches(ev) == ev.kind \in {"write", "truncate"}
\* output events of result line i (0-based)
LineWrites(i) == {k \in 1..Len(log) : log[k].kind = "write" /\ log[k].src = i}
LineTouches(i) == {k \in 1..Len(log) : Touches(log[k]) /\ log[k].src = i}

(* ------------------ C1: one request line per filename ------------------ *)
ManifestBuilt == entry = "submit" /\ pc \in {"upload_manifest", "create_job", "fallback", "done"}

\* C1: once create_batch_file has run on the (non-empty, distinct) uploaded
\* names, the manifest has exactly one line per name, in input order, each
\* with the one prompt and the custom_id "retouch_" + name, and no two lines
\* share a custom_id.
C1_OneLinePerFilename ==
    ManifestBuilt =>
        /\ Len(image_files) > 0
        /\ Len(manifest) = Len(image_files)
        /\ \A i \in 1..Len(manifest) :
             /\ manifest[i].custom_id = RetouchTag \o image_files[i]
             /\ manifest[i].request.contents[1].parts[1].text = master_prompt
             /\ manifest[i].request.contents[2].parts[1].file_data.file_uri.name = image_files[i]
        /\ \A i, j \in 1..Len(manifest) :
             i # j => manifest[i].custom_id # manifest[j].custom_id

C1_Witness == ManifestBuilt /\ pc = "done" /\ Len(manifest) >= 2

(* ------------------ C2: custom_id round trip --------------------------- *)
\* the custom_id of a parsed result line, when it has one
LineHasId(line, id) ==
    /\ line.json /\ line.object
    /\ "custom_id" \in DOMAIN line.value
    /\ line.value.custom_id = id

\* C2: every file the parser writes for a result line whose custom_id was
\* built from filename f is named after the stem of f: stem + "_retouched"
\* + extension, also when f itself contains "retouch_".
C2_RoundTrip ==
    entry = "fetch" =>
        \A k \in 1..Len(log) : \A f \in DirNames :
            (log[k].kind = "write" /\ UploadSelected(f)
             /\ LineHasId(lines[log[k].src + 1], CustomId(f)))
            => \E ext \in {DotJpg, DotPng} :
                 log[k].path.name = SplitextRoot(f) \o RetouchedSuffix \o ext

(* ------------------ C6: empty input is a no-op ------------------------- *)
\* s ends with suf, compared without regard to case
EndsWithCI(s, suf) ==
    /\ Len(suf) <= Len(s)
    /\ \A i \in 1..Len(suf) : LowerChar(s[Len(s) - Len(suf) + i]) = suf[i]

\* C6: when the raw directory holds no uploadable image, the submitter
\* writes no request line, uploads no manifest and creates no batch job.
C6_EmptyInputNoOp ==
    (entry = "submit"
     /\ \A i \in 1..Len(listing) :
          \A suf \in {DotJpg, DotJpeg, DotPng, DotWebp} : ~EndsWithCI(listing[i], suf))
    => /\ manifest = <<>>
       /\ CallIdx("upload_image") = {}
       /\ CallIdx("upload_manifest") = {}
       /\ CallIdx("create_job") = {}
       /\ pc \in {"start", "exited", "failed"}

C6_Witness == entry = "submit" /\ pc = "exited" /\ Len(listing) > 0 /\ manifest = <<>>

(* ------------------ C7: case-insensitive selection --------------------- *)
CISelected(f) ==
    \/ \E suf \in {DotJpg, DotJpeg, DotPng} : EndsWithCI(f, suf)
    \/ entry = "submit" /\ EndsWithCI(f, DotWebp)

\* C7: in every entry point the files selected are exactly those of the
\* listing whose name ends, in any mix of case, with .jpg, .jpeg or .png
\* (or .webp in the upload path).
C7_CaseInsensitiveSelection ==
    (entry \in {"main", "single", "submit"} /\ pc = "done")
    => image_files = SelectSeq(listing, CISelected)

(* ------------------ C8: no retries ------------------------------------- *)
SameCall(i, j) ==
    /\ log[i].kind = "call" /\ log[j].kind = "call"
    /\ log[i].op = log[j].op
    /\ log[i].item = log[j].item

\* C8 as stated: no remote call is attempted twice for the same item.
C8_NoRetryAnywhere ==
    \A i, j \in 1..Len(log) : (i < j) => ~SameCall(i, j)

\* C8 amended: the only remote call attempted twice is batch-job creation,
\* whose second attempt (without destination) follows a failed first
\* attempt and is the last; every other remote call is attempted at most
\* once per item, also after it fails.
C8_NoRetryExceptJobFallback ==
    \A i, j \in 1..Len(log) :
        (i < j /\ SameCall(i, j))
        => /\ log[i].op = "create_job"
           /\ ~log[i].ok
           /\ CallIdx("create_job") = {i, j}

C8_Witness ==
    /\ Cardinality(CallIdx("create_job")) = 2
    /\ Cardinality(CallIdx("upload_image")) >= 2
    /\ pc = "done"

(* ------------------ C9: a sync error ends the run ---------------------- *)
\* the images of the listing the loop has not reached
Pending ==
    IF entry = "single"
    THEN {image_files[m] : m \in (idx + 1)..Len(image_files)}
    ELSE {listing[m] : m \in (idx + 1)..Len(listing)}

Succeeded(s) == s \in {"JOB_STATE_SUCCEEDED", "JOB_STATE_COMPLETED"}

\* C10: the fetcher queries the job status once; it downloads and writes
\* only when the status is succeeded; for a pending, active or failed job
\* it downloads nothing, writes nothing and returns after its report.
C10_SingleStatusCheck ==
    entry = "fetch" =>
        /\ Cardinality(CallIdx("get_job")) <= 1
        /\ pc # "start" => Cardinality(CallIdx("get_job")) = 1
        /\ (CallIdx("download") # {} \/ \E k \in 1..Len(log) : Touches(log[k]))
           => Succeeded(job_state)
        /\ job_state \in {"JOB_STATE_PENDING", "JOB_STATE_ACTIVE", "JOB_STATE_FAILED"}
           => /\ pc = "done"
              /\ Len(log) = 2
              /\ log[2] = ReportEv(IF job_state = "JOB_STATE_FAILED"
                                   THEN "job_failed" ELSE "still_running", job_state)

C10_Witness ==
    entry = "fetch" /\ job_state = "JOB_STATE_FAILED" /\ pc = "done"

(* ------------------ C3: malformed and error lines ---------------------- *)
\* result line i (0-based) of the downloaded manifest
LineAt(i) == lines[i + 1]
IsObject(line) == line.json /\ line.object
HasError(line) ==
    /\ IsObject(line)
    /\ "response" \in DOMAIN line.value
    /\ "error" \in DOMAIN line.value.response
\* the candidates of a line that parsed and carries no error
CandidatesOf(line) ==
    IF IsObject(line) /\ "response" \in DOMAIN line.value
       /\ "candidates" \in DOMAIN line.value.response
    THEN line.value.response.candidates
    ELSE <<>>
PartsOf(line, c) == CandidatesOf(line)[c].content.parts
IsInline(part) == "inline_data" \in DOMAIN part
\* an inline part as the result schema describes it: it carries decodable data
GoodInline(part) ==
    IsInline(part) /\ "data" \in DOMAIN part.inline_data /\ B64Valid(part.inline_data.data)
\* a success line as the result schema describes it
WellFormed(line) ==
    /\ IsObject(line) /\ ~HasError(line)
    /\ Len(CandidatesOf(line)) > 0
    /\ \A c \in 1..Len(CandidatesOf(line)) : \A k \in 1..Len(PartsOf(line, c)) :
         IsInline(PartsOf(line, c)[k]) => GoodInline(PartsOf(line, c)[k])
InlineIdx(line, c) == {k \in 1..Len(PartsOf(line, c)) : IsInline(PartsOf(line, c)[k])}

\* C3: while a succeeded job's manifest is parsed, no exception leaves the
\* per-line handler (each is followed by its report and the loop goes on to
\* the last line); lines that are not JSON objects or carry an error touch
\* no file; and every well-formed success line already passed has the
\* images of its (first) candidate written, wherever it stands.
C3_BadLinesTolerated ==
    (entry = "fetch" /\ pc \in {"parse", "done", "crashed"} /\ Len(lines) > 0) =>
        /\ pc # "crashed"
        /\ pc = "done" => idx = Len(lines)
        /\ \A k \in 1..Len(log) :
             log[k].kind = "raise"
             => (k < Len(log) /\ log[k + 1] = ReportEv("line_failed", log[k].src))
        /\ \A i \in 0..(idx - 1) :
             /\ (~IsObject(LineAt(i)) \/ HasError(LineAt(i))) => LineTouches(i) = {}
             /\ WellFormed(LineAt(i)) =>
                  \A p \in InlineIdx(LineAt(i), 1) :
                     \E k \in LineWrites(i) :
                        /\ log[k].part = p
                        /\ log[k].data = B64Decode(PartsOf(LineAt(i), 1)[p].inline_data.data)

\* a malformed line between two well-formed ones, all three processed
C3_Witness ==
    /\ entry = "fetch" /\ pc = "done" /\ Len(lines) = 3
    /\ WellFormed(LineAt(0)) /\ InlineIdx(LineAt(0), 1) # {}
    /\ ~LineAt(1).json
    /\ WellFormed(LineAt(2)) /\ LineWrites(2) # {}

(* ------------------ C4: candidates and parts walked -------------------- *)
\* C4 as stated: for a well-formed success line the parser writes one image
\* for each inline part of every candidate.
C4_EveryCandidateWalked ==
    entry = "fetch" =>
        \A i \in 0..(idx - 1) :
            WellFormed(LineAt(i)) =>
                \A c \in 1..Len(CandidatesOf(LineAt(i))) :
                    \A p \in InlineIdx(LineAt(i), c) :
                        \E k \in LineWrites(i) :
                            log[k].data = B64Decode(PartsOf(LineAt(i), c)[p].inline_data.data)

\* reports that treat line i as a failure
LineReportedBad(i) ==
    \E k \in 1..Len(log) :
        /\ log[k].kind \in {"raise", "report"}
        /\ log[k].kind = "report" => log[k].what \in {"line_failed", "line_error"}
        /\ log[k].src = i

\* C4 amended: only the first candidate is walked; for a well-formed success
\* line the parser writes exactly one image per inline part of the first
\* candidate (in part order, one count each), and a line whose first
\* candidate holds no inline part yields no output and no failure report.
C4_FirstCandidateWalked ==
    entry = "fetch" =>
        \A i \in 0..(idx - 1) :
            WellFormed(LineAt(i)) =>
                /\ {log[k].part : k \in LineWrites(i)} = InlineIdx(LineAt(i), 1)
                /\ Cardinality(LineWrites(i)) = Cardinality(InlineIdx(LineAt(i), 1))
                /\ LineTouches(i) = LineWrites(i)
                /\ ~LineReportedBad(i)

C4_Witness ==
    /\ entry = "fetch" /\ pc = "done" /\ Len(lines) = 2
    /\ LineAt(0) = L_multi /\ Cardinality(LineWrites(0)) = 2
    /\ LineAt(1) = L_text /\ LineTouches(1) = {}

(* ------------------ C5: extension from MIME type ----------------------- *)
\* the inline part an output event of the fetcher came from
SourcePart(ev) == PartsOf(LineAt(ev.src), 1)[ev.part]

\* C5: every file the parser writes ends in .jpg when the part's declared
\* MIME type contains "jpeg", and in .png for any other or no declared type.
C5_ExtensionFromMime ==
    entry = "fetch" =>
        \A k \in 1..Len(log) :
            Touches(log[k]) =>
                LET inline == SourcePart(log[k]).inline_data
                    isJpeg == /\ "mime_type" \in DOMAIN inline
                              /\ \E a \in 1..Len(inline.mime_type) :
                                   /\ a + 3 <= Len(inline.mime_type)
                                   /\ inline.mime_type[a] = "j"
                                   /\ inline.mime_type[a + 1] = "p"
                                   /\ inline.mime_type[a + 2] = "e"
                                   /\ inline.mime_type[a + 3] = "g"
                IN  /\ isJpeg => EndsWith(log[k].path.name, RetouchedSuffix \o DotJpg)
                    /\ ~isJpeg => EndsWith(log[k].path.name, RetouchedSuffix \o DotPng)

C5_Witness ==
    /\ entry = "fetch" /\ pc = "done"
    /\ \E k \in 1..Len(log) :
         /\ log[k].kind = "write"
         /\ "mime_type" \in DOMAIN SourcePart(log[k]).inline_data
         /\ SourcePart(log[k]).inline_data.mime_type = M_pjpeg
         /\ EndsWith(log[k].path.name, DotJpg)
    /\ \E k \in 1..Len(log) :
         /\ log[k].kind = "write"
         /\ "mime_type" \notin DOMAIN SourcePart(log[k]).inline_data
         /\ EndsWith(log[k].path.name, DotPng)

(* ------------------ C11: no output file overwritten -------------------- *)
\* the saved images of the run so far
SavedIdx == {k \in 1..Len(log) : log[k].kind = "write"}

\* C11: within one run no two saved images (of one response or result line,
\* or of different ones) are written to the same output path, so the count
\* the run reports equals the number of distinct files it wrote.
C11_NoOverwrite ==
    /\ \A k, l \in SavedIdx : k # l => log[k].path # log[l].path
    /\ count = Cardinality({log[k].path : k \in SavedIdx})

====
